---- MODULE Spec2Model ----
(***************************************************************************)
(* A model of src/rag_utils.py: the query-routing retrieval-augmented      *)
(* generation engine (router, index loader and caches, retriever,          *)
(* formatting, orchestrator do_rag_query).                                 *)
(*                                                                         *)
(* Text is modelled as a sequence of segments. A segment is a record       *)
(* [t, v]: t says where the text comes from ("lit" a literal of the        *)
(* source, "id" a partition id, "bucket" the S3 bucket name, "prefix" a    *)
(* storage prefix, "exc" the text of an exception raised by a library,     *)
(* "chunk" the content of a retrieved chunk, "llm" text written by the     *)
(* answering model, ...) and v is the text itself.                         *)
(***************************************************************************)
EXTENDS Integers, Sequences, FiniteSets, TLC

(***************************************************************************)
(* Bounds of the model.                                                    *)
(***************************************************************************)
\* Longest raw router output, in tokens, that the router specification tries.
MaxRawLen == 3
\* Number of chunks held by the larger of the two indexed partitions.
MaxChunks == 3

(***************************************************************************)
(* Program constants.                                                      *)
(***************************************************************************)
DEFAULT_TOP_K == 5
\* stop_after_attempt(2) of the retry decorator of route_query_to_store.
STOP_AFTER_ATTEMPT == 2
ROUTING_LLM_MODEL == "gpt-4o-mini"
\* os.getenv('LLM_MODEL', 'gpt-4o-mini'): unset, set to the routing model's
\* name, or set to another model's name.
LLM_MODEL_VALUES == {"gpt-4o-mini", "gpt-4o"}
S3_BUCKET_NAME == "<S3_BUCKET_NAME>"

None == "None"

VECTOR_STORE_IDS ==
    ("course_details_source1" :> "vs_course_details_with_outcomes")
    @@ ("professions_immigration" :> "vs_professions_data_immigration")
    @@ ("professions_jobs" :> "vs_professions_data_with_jobs")
    @@ ("university_details" :> "vs_processed_data_university")
    @@ ("course_details_source2" :> "vs_course_details_with_outcomes_second_source")

\* Insertion order of the dict, which next(...) at the fallback scans.
VECTOR_STORE_ORDER ==
    << "course_details_source1", "professions_immigration", "professions_jobs",
       "university_details", "course_details_source2" >>

(***************************************************************************)
(* Text segments.                                                          *)
(***************************************************************************)
Seg(t, v) == [t |-> t, v |-> v]
Lit(s) == Seg("lit", s)
IdSeg(id) == Seg("id", id)
ExcSeg(s) == Seg("exc", s)

(***************************************************************************)
(* Raw router output: a sequence of tokens, each a whitespace character, a *)
(* quote character, or a run of other characters.                          *)
(***************************************************************************)
WhitespaceTokens == {" ", "\n"}
QuoteTokens == {"'", "\""}
WordTokens ==
    { "university_details", "vs_processed_data_university", "professions_jobs",
      "university", "_details", "Answer:" }
RawTokens == WhitespaceTokens \cup QuoteTokens \cup WordTokens

SeqsUpTo(S, n) == UNION { [1..m -> S] : m \in 0..n }
RawOutputs == SeqsUpTo(RawTokens, MaxRawLen)

RECURSIVE LStrip(_)
LStrip(s) ==
    IF s # << >> /\ Head(s) \in WhitespaceTokens THEN LStrip(Tail(s)) ELSE s

RECURSIVE RStrip(_)
RStrip(s) ==
    IF s # << >> /\ s[Len(s)] \in WhitespaceTokens
    THEN RStrip(SubSeq(s, 1, Len(s) - 1))
    ELSE s

\* str.strip(): whitespace is removed at both ends only.
Strip(s) == RStrip(LStrip(s))

\* str.replace(q, ""): every occurrence of the quote character is removed.
RemoveAll(s, q) == SelectSeq(s, LAMBDA tok : tok # q)

RECURSIVE Join(_)
Join(s) == IF s = << >> THEN "" ELSE Head(s) \o Join(Tail(s))

\* llm_response.strip().replace("'", "").replace('"', '')
CleanResponse(llm_response) ==
    Join(RemoveAll(RemoveAll(Strip(llm_response), "'"), "\""))

\* Mutant: the fallback returns the matched storage prefix, not its key.
MatchingKey_ReturnsValue(chosen_key) ==
    IF \E id \in DOMAIN VECTOR_STORE_IDS : VECTOR_STORE_IDS[id] = chosen_key
    THEN chosen_key ELSE None

\* next((key for key, val in VECTOR_STORE_IDS.items() if val == chosen_key), None)
MatchingKey(chosen_key) ==
    LET hits == { i \in 1..Len(VECTOR_STORE_ORDER) :
                    VECTOR_STORE_IDS[VECTOR_STORE_ORDER[i]] = chosen_key }
    IN IF hits = {} THEN None
       ELSE VECTOR_STORE_ORDER[CHOOSE i \in hits : \A j \in hits : i <= j]

(***************************************************************************)
(* The indexed data held in storage: each partition's chunks and their     *)
(* metadata. This is data, not code: the sample below has a chunk for each *)
(* shape of metadata that format_retrieved_docs distinguishes.             *)
(***************************************************************************)
\* The partitions whose artifacts exist in this model's storage.
IndexedPartitions == {"university_details", "professions_jobs"}

ChunkCount(part) == IF part = "university_details" THEN 2 ELSE MaxChunks

Chunk(part, n) == [part |-> part, n |-> n]

ChunkName(c) == c.part \o "#" \o ToString(c.n)

PageContent(c) == ChunkName(c) \o ".page_content"

\* doc.metadata of a stored chunk: a function from the keys present to their
\* values ("" is the empty string, None is null).
ChunkMetadata(c) ==
    IF c.part = "university_details"
    THEN IF c.n = 1
         THEN ("university_id" :> "U1") @@ ("blurb_text" :> (ChunkName(c) \o ".blurb_text"))
         ELSE ("serial_no" :> None) @@ ("source_file" :> "")
    ELSE IF c.n = 1 THEN ("profession_id" :> "") @@ ("source_file" :> "jobs.csv")
    ELSE IF c.n = 2 THEN << >>
    ELSE IF c.n = 3 THEN ("course_id" :> "C3") @@ ("blurb_text" :> None)
    ELSE ("source_file" :> "")

\* The chunks of a partition's index, in the order of their similarity to the
\* query (the order depends on the query's embedding).
Queries == {"q1", "q2"}

Ranked(part, user_query) ==
    LET n == ChunkCount(part)
    IN [i \in 1..n |-> Chunk(part, IF user_query = "q1" THEN i ELSE n + 1 - i)]

Min(a, b) == IF a <= b THEN a ELSE b

\* The documents a similarity search with result count k returns: the k most
\* similar chunks, or all of them when the index holds fewer.
SimilaritySearch(retr, user_query) ==
    SubSeq(Ranked(retr.part, user_query), 1, Min(retr.k, ChunkCount(retr.part)))

(***************************************************************************)
(* Objects. Every object kind has a null value of the same shape.          *)
(***************************************************************************)
\* A loaded index: the partition it was loaded from and which load made it.
VectorStore(part, gen) == [part |-> part, gen |-> gen]
NoVectorStore == VectorStore(None, 0)

\* vs.as_retriever(search_type="similarity", search_kwargs={"k": k}): a new
\* object, the serial-th made for its cache key, bound to the index object vs
\* and to k.
AsRetriever(vs, k, serial) ==
    [part |-> vs.part, gen |-> vs.gen, k |-> k, serial |-> serial]
NoRetriever == [part |-> None, gen |-> 0, k |-> 0, serial |-> 0]

ChatOpenAI(model_name, temperature, request_timeout) ==
    [model_name |-> model_name, temperature |-> temperature,
     request_timeout |-> request_timeout]
NoClient == ChatOpenAI(None, None, 0)

\* An exception: its class and the text str(e) gives.
Exc(cls, text) == [cls |-> cls, text |-> text]
NoExc == Exc(None, << >>)

\* What a call gave: a value of some kind, returned or raised.
Res(kind, val) == [kind |-> kind, val |-> val]
NoResult == Res("none", None)

\* Mutant: the cache key leaves out the partition id.
CacheKey_WithoutId(vector_store_id, k) == "k" \o ToString(k)

\* Mutant: the cache key leaves out the result count.
CacheKey_WithoutK(vector_store_id, k) == vector_store_id

\* cache_key = f"{vector_store_id}_k{k}"
CacheKey(vector_store_id, k) == vector_store_id \o "_k" \o ToString(k)

(***************************************************************************)
(* State.                                                                  *)
(***************************************************************************)
Procs == {1, 2}

\* The names under which a call counts what it invoked.
CallNames ==
    { "get_llm", "route_model", "get_faiss_retriever", "load_faiss_vector_store",
      "get_embedding_model", "s3_client", "download", "load_local",
      "as_retriever", "retriever_invoke", "format_retrieved_docs", "generate_model" }

VARIABLES
    \* --- module-level state of rag_utils.py
    ANSWERING_LLM_MODEL,        \* set at import from the environment
    embedding_model_instance,   \* _embedding_model_instance
    vector_stores,              \* _vector_stores
    retriever_cache,            \* _retriever_cache
    answering_llm,              \* _answering_llm
    routing_llm,                \* _routing_llm
    \* --- the threads that may run calls at the same time, and per thread:
    threads,
    pc,                         \* position in the code
    op,                         \* the function called from outside
    user_query, user_profile, top_k,
    vector_store_id, k,         \* parameters of get_faiss_retriever / load
    answering_client,           \* do_rag_query's local answering_llm
    routing_client,             \* route_query_to_store's local routing_llm
    attempt,                    \* attempt number of the retry decorator (0: not running)
    llm_response,               \* the router model's raw output (kept for a direct call)
    chosen_vector_store_id,
    vs,                         \* get_faiss_retriever's local vs
    retriever,
    final_docs,
    prompt_inputs,
    result,                     \* what the outer call returned or raised
    outcome,                    \* "none", "returned" or "raised"
    exc,                        \* the exception the call raised, handled or not
    \* --- history, for stating the properties
    load_count,                 \* successful loads per partition
    retriever_count,            \* cache key -> retrievers made for it
    served,                     \* cache key -> first retriever handed out
    prior,                      \* served[cache key] when the call looked
    stages,                     \* the stages the invocation has entered
    calls                       \* what the invocation has invoked, with counts

module_state ==
    << ANSWERING_LLM_MODEL, embedding_model_instance, vector_stores,
       retriever_cache, answering_llm, routing_llm >>

args == << op, user_query, user_profile, top_k >>

locals ==
    << vector_store_id, k, answering_client, routing_client, attempt,
       llm_response, chosen_vector_store_id, vs, retriever, final_docs,
       prompt_inputs >>

history == << load_count, retriever_count, served, prior, stages, calls >>

vars == << module_state, threads, pc, args, locals, result, outcome, exc, history >>

NoPrompt == [context |-> << >>, question |-> None, user_profile_json |-> << >>]

NoCalls == [c \in CallNames |-> 0]

\* The state right after import: empty caches, no client built, every thread idle.
InitWith(T) ==
    /\ ANSWERING_LLM_MODEL \in LLM_MODEL_VALUES
    /\ embedding_model_instance = FALSE
    /\ vector_stores = << >>
    /\ retriever_cache = << >>
    /\ answering_llm = NoClient
    /\ routing_llm = NoClient
    /\ threads = T
    /\ pc = [p \in Procs |-> "idle"]
    /\ op = [p \in Procs |-> None]
    /\ user_query = [p \in Procs |-> None]
    /\ user_profile = [p \in Procs |-> None]
    /\ top_k = [p \in Procs |-> 0]
    /\ vector_store_id = [p \in Procs |-> None]
    /\ k = [p \in Procs |-> 0]
    /\ answering_client = [p \in Procs |-> NoClient]
    /\ routing_client = [p \in Procs |-> NoClient]
    /\ attempt = [p \in Procs |-> 0]
    /\ llm_response = [p \in Procs |-> << >>]
    /\ chosen_vector_store_id = [p \in Procs |-> None]
    /\ vs = [p \in Procs |-> NoVectorStore]
    /\ retriever = [p \in Procs |-> NoRetriever]
    /\ final_docs = [p \in Procs |-> << >>]
    /\ prompt_inputs = [p \in Procs |-> NoPrompt]
    /\ result = [p \in Procs |-> NoResult]
    /\ outcome = [p \in Procs |-> "none"]
    /\ exc = [p \in Procs |-> NoExc]
    /\ load_count = [id \in DOMAIN VECTOR_STORE_IDS |-> 0]
    /\ retriever_count = << >>
    /\ served = << >>
    /\ prior = [p \in Procs |-> NoRetriever]
    /\ stages = [p \in Procs |-> << >>]
    /\ calls = [p \in Procs |-> NoCalls]

\* One thread: calls never overlap.
Init == InitWith({1})

(***************************************************************************)
(* Inputs of the calls and behaviours of the services.                     *)
(***************************************************************************)
\* user_profile: None, the empty mapping, a mapping with attributes.
Profiles == {None, "empty", "attrs"}

\* top_k and k: below the sane range, a small count, and the default.
TopKs == {0, 2, DEFAULT_TOP_K}

\* Ids passed to get_faiss_retriever and load_faiss_vector_store directly.
DirectIds == IndexedPartitions \cup {"nonexistent_partition"}

\* What the routing model answers in the full model: an id, an id in quotes and
\* whitespace, a storage prefix, an id cut in two by a quote, a sentence, nothing.
RouterReplies ==
    { << "university_details" >>,
      << " ", "'", "professions_jobs", "'", "\n" >>,
      << "vs_processed_data_university" >>,
      << "university", "\"", "_details" >>,
      << "Answer:", " ", "university_details" >>,
      << >> }

\* The ClientError responses of a download: e.response's error code and whether
\* str(e) holds 'NotFound'.
ClientErrors ==
    { [code |-> "NoSuchKey", has_NotFound |-> FALSE],
      [code |-> "404", has_NotFound |-> FALSE],
      [code |-> "NotFound", has_NotFound |-> TRUE],
      [code |-> "AccessDenied", has_NotFound |-> FALSE] }

(***************************************************************************)
(* Helpers of the actions.                                                 *)
(***************************************************************************)
Count(p, names) ==
    [calls EXCEPT ![p] = [c \in CallNames |-> IF c \in names THEN @[c] + 1 ELSE @[c]]]

Enter(p, stage) == [stages EXCEPT ![p] = Append(@, stage)]

\* The texts do_rag_query returns on its failure paths.
RoutingFailureText ==
    << Lit("Sorry, I could not determine the relevant knowledge base for your query.") >>

UnavailableText(id) ==
    << Lit("Error: The knowledge base '"), IdSeg(id), Lit("' is currently unavailable.") >>

RetrievalErrorText(id) ==
    << Lit("Error: Could not retrieve information from the '"), IdSeg(id),
       Lit("' knowledge base.") >>

LoadErrorText(e) ==
    << Lit("Error: Could not load/access required knowledge base files. Details: ") >>
    \o e.text

UnexpectedErrorText(e) ==
    << Lit("Sorry, an unexpected error occurred processing your request. Details: ") >>
    \o e.text

\* Mutant: the final `except Exception` clause is missing.
RagExcept_NoCatchAll(e) ==
    IF e.cls \in {"FileNotFoundError", "PermissionError", "ConnectionError"}
    THEN [outcome |-> "returned", result |-> Res("str", LoadErrorText(e))]
    ELSE [outcome |-> "raised", result |-> Res("exc", e)]

\* The except clauses that close do_rag_query: what the call gives for an
\* exception e raised anywhere in its body.
RagExcept(e) ==
    IF e.cls \in {"FileNotFoundError", "PermissionError", "ConnectionError"}
    THEN [outcome |-> "returned", result |-> Res("str", LoadErrorText(e))]
    ELSE [outcome |-> "returned", result |-> Res("str", UnexpectedErrorText(e))]

\* The outer call returns res.
Return(p, res) ==
    /\ pc' = [pc EXCEPT ![p] = "done"]
    /\ outcome' = [outcome EXCEPT ![p] = "returned"]
    /\ result' = [result EXCEPT ![p] = res]
    /\ UNCHANGED exc

\* Exception e is caught by a handler that returns res from the outer call.
ReturnCaught(p, res, e) ==
    /\ pc' = [pc EXCEPT ![p] = "done"]
    /\ outcome' = [outcome EXCEPT ![p] = "returned"]
    /\ result' = [result EXCEPT ![p] = res]
    /\ exc' = [exc EXCEPT ![p] = e]

\* Exception e is raised in thread p: it unwinds get_faiss_retriever and
\* load_faiss_vector_store, which catch nothing, and reaches do_rag_query's
\* except clauses, or the outside caller when do_rag_query is not on the stack.
Raise(p, e) ==
    /\ pc' = [pc EXCEPT ![p] = "done"]
    /\ exc' = [exc EXCEPT ![p] = e]
    /\ IF op[p] = "do_rag_query"
       THEN /\ outcome' = [outcome EXCEPT ![p] = RagExcept(e).outcome]
            /\ result' = [result EXCEPT ![p] = RagExcept(e).result]
            /\ stages' = Enter(p, "FAILED")
       ELSE /\ outcome' = [outcome EXCEPT ![p] = "raised"]
            /\ result' = [result EXCEPT ![p] = Res("exc", e)]
            /\ UNCHANGED stages

(***************************************************************************)
(* get_llm                                                                 *)
(***************************************************************************)
\* Which module-level client get_llm(model_name) serves: the answering model's
\* name is tested first, and an unknown name falls back to the answering client.
GetLlmSlot(model_name) ==
    IF model_name = ANSWERING_LLM_MODEL THEN "answering"
    ELSE IF model_name = ROUTING_LLM_MODEL THEN "routing"
    ELSE "answering"

\* The client built for a slot on first use.
NewClient(slot) ==
    IF slot = "answering" THEN ChatOpenAI(ANSWERING_LLM_MODEL, "0.3", 90)
    ELSE ChatOpenAI(ROUTING_LLM_MODEL, "0.0", 45)

\* Mutant: building the client of one slot discards the client of the other.
GetLlm_DropsOtherClient(model_name) ==
    LET slot == GetLlmSlot(model_name)
        old == IF slot = "answering" THEN answering_llm ELSE routing_llm
        client == IF old = NoClient THEN NewClient(slot) ELSE old
    IN [client |-> client,
        answering_llm |-> IF slot = "answering" THEN client
                          ELSE IF old = NoClient THEN NoClient ELSE answering_llm,
        routing_llm |-> IF slot = "routing" THEN client
                        ELSE IF old = NoClient THEN NoClient ELSE routing_llm]

\* get_llm(model_name) when the constructor, if run, succeeds: the client
\* returned, and the two module-level clients afterwards.
GetLlm(model_name) ==
    LET slot == GetLlmSlot(model_name)
        old == IF slot = "answering" THEN answering_llm ELSE routing_llm
        client == IF old = NoClient THEN NewClient(slot) ELSE old
    IN [client |-> client,
        answering_llm |-> IF slot = "answering" THEN client ELSE answering_llm,
        routing_llm |-> IF slot = "routing" THEN client ELSE routing_llm]

\* Whether get_llm(model_name) has to construct a client (which may fail).
GetLlmBuilds(model_name) ==
    IF GetLlmSlot(model_name) = "answering" THEN answering_llm = NoClient
    ELSE routing_llm = NoClient

(***************************************************************************)
(* Calls from outside.                                                     *)
(***************************************************************************)
StartRag(p, queries, profiles, ks) ==
    /\ p \in threads /\ pc[p] = "idle"
    /\ \E q \in queries, prof \in profiles, tk \in ks :
         /\ user_query' = [user_query EXCEPT ![p] = q]
         /\ user_profile' = [user_profile EXCEPT ![p] = prof]
         /\ top_k' = [top_k EXCEPT ![p] = tk]
    /\ op' = [op EXCEPT ![p] = "do_rag_query"]
    /\ pc' = [pc EXCEPT ![p] = "rag_get_llm"]
    /\ UNCHANGED << module_state, threads, locals, result, outcome, exc, history >>

StartRoute(p) ==
    /\ p \in threads /\ pc[p] = "idle"
    /\ \E q \in Queries : user_query' = [user_query EXCEPT ![p] = q]
    /\ op' = [op EXCEPT ![p] = "route_query_to_store"]
    /\ pc' = [pc EXCEPT ![p] = "route"]
    /\ attempt' = [attempt EXCEPT ![p] = 1]
    /\ UNCHANGED << module_state, threads, user_profile, top_k, vector_store_id, k,
                    answering_client, routing_client, llm_response,
                    chosen_vector_store_id, vs, retriever, final_docs,
                    prompt_inputs, result, outcome, exc, history >>

\* get_faiss_retriever(id, kk) is called with an id of ids and a kk of ks.
StartGetRetriever(p, ids, ks) ==
    /\ p \in threads /\ pc[p] = "idle"
    /\ \E id \in ids, kk \in ks :
         /\ vector_store_id' = [vector_store_id EXCEPT ![p] = id]
         /\ k' = [k EXCEPT ![p] = kk]
    /\ op' = [op EXCEPT ![p] = "get_faiss_retriever"]
    /\ pc' = [pc EXCEPT ![p] = "gfr_check"]
    /\ calls' = Count(p, {"get_faiss_retriever"})
    /\ UNCHANGED << module_state, threads, user_query, user_profile, top_k,
                    answering_client, routing_client, attempt, llm_response,
                    chosen_vector_store_id, vs, retriever, final_docs,
                    prompt_inputs, result, outcome, exc, load_count, retriever_count, served, prior,
                    stages >>

StartLoad(p) ==
    /\ p \in threads /\ pc[p] = "idle"
    /\ \E id \in DirectIds : vector_store_id' = [vector_store_id EXCEPT ![p] = id]
    /\ op' = [op EXCEPT ![p] = "load_faiss_vector_store"]
    /\ pc' = [pc EXCEPT ![p] = "load_check"]
    /\ calls' = Count(p, {"load_faiss_vector_store"})
    /\ UNCHANGED << module_state, threads, user_query, user_profile, top_k, k,
                    answering_client, routing_client, attempt, llm_response,
                    chosen_vector_store_id, vs, retriever, final_docs,
                    prompt_inputs, result, outcome, exc, load_count, retriever_count, served, prior,
                    stages >>

\* The outside caller takes the result; the thread is free for the next call.
Finish(p) ==
    /\ pc[p] = "done"
    /\ pc' = [pc EXCEPT ![p] = "idle"]
    /\ op' = [op EXCEPT ![p] = None]
    /\ user_query' = [user_query EXCEPT ![p] = None]
    /\ user_profile' = [user_profile EXCEPT ![p] = None]
    /\ top_k' = [top_k EXCEPT ![p] = 0]
    /\ vector_store_id' = [vector_store_id EXCEPT ![p] = None]
    /\ k' = [k EXCEPT ![p] = 0]
    /\ answering_client' = [answering_client EXCEPT ![p] = NoClient]
    /\ routing_client' = [routing_client EXCEPT ![p] = NoClient]
    /\ attempt' = [attempt EXCEPT ![p] = 0]
    /\ llm_response' = [llm_response EXCEPT ![p] = << >>]
    /\ chosen_vector_store_id' = [chosen_vector_store_id EXCEPT ![p] = None]
    /\ vs' = [vs EXCEPT ![p] = NoVectorStore]
    /\ retriever' = [retriever EXCEPT ![p] = NoRetriever]
    /\ final_docs' = [final_docs EXCEPT ![p] = << >>]
    /\ prompt_inputs' = [prompt_inputs EXCEPT ![p] = NoPrompt]
    /\ result' = [result EXCEPT ![p] = NoResult]
    /\ outcome' = [outcome EXCEPT ![p] = "none"]
    /\ exc' = [exc EXCEPT ![p] = NoExc]
    /\ prior' = [prior EXCEPT ![p] = NoRetriever]
    /\ stages' = [stages EXCEPT ![p] = << >>]
    /\ calls' = [calls EXCEPT ![p] = NoCalls]
    /\ UNCHANGED << module_state, threads, load_count, retriever_count, served >>

(***************************************************************************)
(* route_query_to_store, under its retry decorator                         *)
(***************************************************************************)
\* Mutant: an output that names no partition is routed to a partition whose
\* index is already in the index cache.
ParseRouterOutput_PrefersLoaded(response) ==
    LET chosen_key == CleanResponse(response)
    IN IF chosen_key \in DOMAIN VECTOR_STORE_IDS THEN chosen_key
       ELSE IF MatchingKey(chosen_key) = None /\ DOMAIN vector_stores # {}
       THEN CHOOSE id \in DOMAIN vector_stores : TRUE
       ELSE MatchingKey(chosen_key)

\* The validation of route_query_to_store applied to the model's output.
ParseRouterOutput(response) ==
    LET chosen_key == CleanResponse(response)
    IN IF chosen_key \in DOMAIN VECTOR_STORE_IDS THEN chosen_key
       ELSE MatchingKey(chosen_key)

\* Mutant: the retry decorator has no stop condition: a failed attempt is always
\* followed by another (the attempt number wraps, to keep the state finite).
Route_RetriesWithoutStop(p, replies) ==
    /\ pc[p] = "route"
    /\ \/ \* get_llm(ROUTING_LLM_MODEL) raises while building the client
          /\ GetLlmBuilds(ROUTING_LLM_MODEL)
          /\ attempt' = [attempt EXCEPT ![p] = IF @ < STOP_AFTER_ATTEMPT THEN @ + 1 ELSE 1]
          /\ UNCHANGED << calls, pc, result, outcome, exc, stages >>
          /\ UNCHANGED << answering_llm, routing_llm, routing_client,
                          llm_response, chosen_vector_store_id >>
       \/ \* the model answers
          /\ \E raw \in replies :
               /\ chosen_vector_store_id' =
                    [chosen_vector_store_id EXCEPT ![p] = ParseRouterOutput(raw)]
               /\ IF op[p] = "do_rag_query"
                  THEN /\ pc' = [pc EXCEPT ![p] = "rag_check"]
                       /\ UNCHANGED << llm_response, result, outcome, exc >>
                  ELSE /\ Return(p, Res("key", ParseRouterOutput(raw)))
                       /\ llm_response' = [llm_response EXCEPT ![p] = raw]
          /\ answering_llm' = GetLlm(ROUTING_LLM_MODEL).answering_llm
          /\ routing_llm' = GetLlm(ROUTING_LLM_MODEL).routing_llm
          /\ routing_client' = [routing_client EXCEPT ![p] = GetLlm(ROUTING_LLM_MODEL).client]
          /\ calls' = Count(p, {"get_llm", "route_model"})
          /\ attempt' = [attempt EXCEPT ![p] = 0]
          /\ UNCHANGED stages
       \/ \* the model call raises: caught, logged, None is returned
          /\ chosen_vector_store_id' = [chosen_vector_store_id EXCEPT ![p] = None]
          /\ IF op[p] = "do_rag_query"
             THEN /\ pc' = [pc EXCEPT ![p] = "rag_check"]
                  /\ UNCHANGED << result, outcome, exc >>
             ELSE ReturnCaught(p, Res("key", None),
                               Exc("Exception", << ExcSeg("openai") >>))
          /\ answering_llm' = GetLlm(ROUTING_LLM_MODEL).answering_llm
          /\ routing_llm' = GetLlm(ROUTING_LLM_MODEL).routing_llm
          /\ routing_client' = [routing_client EXCEPT ![p] = GetLlm(ROUTING_LLM_MODEL).client]
          /\ calls' = Count(p, {"get_llm", "route_model"})
          /\ attempt' = [attempt EXCEPT ![p] = 0]
          /\ UNCHANGED << llm_response, stages >>
    /\ UNCHANGED << ANSWERING_LLM_MODEL, embedding_model_instance, vector_stores,
                    retriever_cache, threads, args, vector_store_id, k,
                    answering_client, vs, retriever, final_docs, prompt_inputs,
                    load_count, retriever_count, served, prior >>

\* One attempt of route_query_to_store. `replies` are the outputs the routing
\* model may give. get_llm and the prompt are outside the function's try, so
\* a failure there leaves the function and the decorator retries; a failure of
\* the model call is caught inside and the function returns None.
Route(p, replies) ==
    /\ pc[p] = "route"
    /\ \/ \* get_llm(ROUTING_LLM_MODEL) raises while building the client
          /\ GetLlmBuilds(ROUTING_LLM_MODEL)
          /\ calls' = Count(p, {"get_llm"})
          /\ IF attempt[p] < STOP_AFTER_ATTEMPT
             THEN /\ attempt' = [attempt EXCEPT ![p] = @ + 1]
                  /\ UNCHANGED << pc, result, outcome, exc, stages >>
             ELSE /\ Raise(p, Exc("RetryError", << ExcSeg("RetryError") >>))
                  /\ UNCHANGED attempt
          /\ UNCHANGED << answering_llm, routing_llm, routing_client,
                          llm_response, chosen_vector_store_id >>
       \/ \* the model answers
          /\ \E raw \in replies :
               /\ chosen_vector_store_id' =
                    [chosen_vector_store_id EXCEPT ![p] = ParseRouterOutput(raw)]
               /\ IF op[p] = "do_rag_query"
                  THEN /\ pc' = [pc EXCEPT ![p] = "rag_check"]
                       /\ UNCHANGED << llm_response, result, outcome, exc >>
                  ELSE /\ Return(p, Res("key", ParseRouterOutput(raw)))
                       /\ llm_response' = [llm_response EXCEPT ![p] = raw]
          /\ answering_llm' = GetLlm(ROUTING_LLM_MODEL).answering_llm
          /\ routing_llm' = GetLlm(ROUTING_LLM_MODEL).routing_llm
          /\ routing_client' = [routing_client EXCEPT ![p] = GetLlm(ROUTING_LLM_MODEL).client]
          /\ calls' = Count(p, {"get_llm", "route_model"})
          /\ attempt' = [attempt EXCEPT ![p] = 0]
          /\ UNCHANGED stages
       \/ \* the model call raises: caught, logged, None is returned
          /\ chosen_vector_store_id' = [chosen_vector_store_id EXCEPT ![p] = None]
          /\ IF op[p] = "do_rag_query"
             THEN /\ pc' = [pc EXCEPT ![p] = "rag_check"]
                  /\ UNCHANGED << result, outcome, exc >>
             ELSE ReturnCaught(p, Res("key", None),
                               Exc("Exception", << ExcSeg("openai") >>))
          /\ answering_llm' = GetLlm(ROUTING_LLM_MODEL).answering_llm
          /\ routing_llm' = GetLlm(ROUTING_LLM_MODEL).routing_llm
          /\ routing_client' = [routing_client EXCEPT ![p] = GetLlm(ROUTING_LLM_MODEL).client]
          /\ calls' = Count(p, {"get_llm", "route_model"})
          /\ attempt' = [attempt EXCEPT ![p] = 0]
          /\ UNCHANGED << llm_response, stages >>
    /\ UNCHANGED << ANSWERING_LLM_MODEL, embedding_model_instance, vector_stores,
                    retriever_cache, threads, args, vector_store_id, k,
                    answering_client, vs, retriever, final_docs, prompt_inputs,
                    load_count, retriever_count, served, prior >>

(***************************************************************************)
(* load_faiss_vector_store                                                 *)
(***************************************************************************)
\* load_faiss_vector_store returns v: to get_faiss_retriever, or to the
\* outside caller.
LoadReturn(p, v) ==
    IF op[p] = "load_faiss_vector_store"
    THEN /\ Return(p, Res("vs", v))
         /\ UNCHANGED vs
    ELSE /\ vs' = [vs EXCEPT ![p] = v]
         /\ pc' = [pc EXCEPT ![p] = "gfr_store"]
         /\ UNCHANGED << result, outcome, exc >>

\* Mutant: the index cache is not consulted; every call loads from storage.
LoadCheck_SkipsCache(p) ==
    /\ pc[p] = "load_check"
    /\ LET id == vector_store_id[p]
       IN IF id \notin DOMAIN VECTOR_STORE_IDS
          THEN /\ Raise(p, Exc("ValueError",
                    << Lit("Unknown vector_store_id: "), IdSeg(id),
                       Lit(". Available IDs: "), Seg("ids", "list(VECTOR_STORE_IDS.keys())") >>))
               /\ UNCHANGED vs
          ELSE /\ pc' = [pc EXCEPT ![p] = "load_embed"]
               /\ UNCHANGED << vs, result, outcome, exc, stages >>
    /\ UNCHANGED << module_state, threads, args, vector_store_id, k,
                    answering_client, routing_client, attempt, llm_response,
                    chosen_vector_store_id, retriever, final_docs, prompt_inputs,
                    load_count, retriever_count, served, prior, calls >>

\* Mutant: the registry is consulted only after the embedding client is made.
LoadCheck_ChecksRegistryLate(p) ==
    /\ pc[p] = "load_check"
    /\ LET id == vector_store_id[p]
       IN IF id \in DOMAIN vector_stores /\ vector_stores[id] # NoVectorStore
          THEN LoadReturn(p, vector_stores[id]) /\ UNCHANGED stages
          ELSE /\ pc' = [pc EXCEPT ![p] = "load_embed"]
               /\ UNCHANGED << vs, result, outcome, exc, stages >>
    /\ UNCHANGED << module_state, threads, args, vector_store_id, k,
                    answering_client, routing_client, attempt, llm_response,
                    chosen_vector_store_id, retriever, final_docs, prompt_inputs,
                    load_count, retriever_count, served, prior, calls >>

\* The cache test and the registry test that open the function.
LoadCheck(p) ==
    /\ pc[p] = "load_check"
    /\ LET id == vector_store_id[p]
       IN IF id \in DOMAIN vector_stores /\ vector_stores[id] # NoVectorStore
          THEN LoadReturn(p, vector_stores[id]) /\ UNCHANGED stages
          ELSE IF id \notin DOMAIN VECTOR_STORE_IDS
          THEN /\ Raise(p, Exc("ValueError",
                    << Lit("Unknown vector_store_id: "), IdSeg(id),
                       Lit(". Available IDs: "), Seg("ids", "list(VECTOR_STORE_IDS.keys())") >>))
               /\ UNCHANGED vs
          ELSE /\ pc' = [pc EXCEPT ![p] = "load_embed"]
               /\ UNCHANGED << vs, result, outcome, exc, stages >>
    /\ UNCHANGED << module_state, threads, args, vector_store_id, k,
                    answering_client, routing_client, attempt, llm_response,
                    chosen_vector_store_id, retriever, final_docs, prompt_inputs,
                    load_count, retriever_count, served, prior, calls >>

\* embeddings = get_embedding_model()
LoadEmbed(p) ==
    /\ pc[p] = "load_embed"
    /\ embedding_model_instance' = TRUE
    /\ pc' = [pc EXCEPT ![p] = "load_download"]
    /\ calls' = Count(p, {"get_embedding_model"})
    /\ UNCHANGED << ANSWERING_LLM_MODEL, vector_stores, retriever_cache,
                    answering_llm, routing_llm, threads, args, locals, result,
                    outcome, exc, load_count, retriever_count, served, prior, stages >>

\* The exception the ClientError handler raises for response ce.
DownloadError(id, ce) ==
    IF ce.code = "NoSuchKey" \/ ce.has_NotFound
    THEN Exc("FileNotFoundError",
             << Lit("FAISS files not found for '"), IdSeg(id), Lit("' at s3://"),
                Seg("bucket", S3_BUCKET_NAME), Lit("/"),
                Seg("prefix", VECTOR_STORE_IDS[id]), Lit("/") >>)
    ELSE Exc("ConnectionError",
             << Lit("Failed S3 connect/download for '"), IdSeg(id), Lit("': "),
                ExcSeg("ClientError") >>)

\* Mutant: a failed download evicts the partition from the index cache.
LoadDownload_EvictsOnError(p) ==
    /\ pc[p] = "load_download"
    /\ calls' = Count(p, {"s3_client", "download"})
    /\ \/ /\ pc' = [pc EXCEPT ![p] = "load_local"]
          /\ UNCHANGED << result, outcome, exc, stages, vector_stores >>
       \/ /\ \E ce \in ClientErrors : Raise(p, DownloadError(vector_store_id[p], ce))
          /\ vector_stores' =
               [id \in DOMAIN vector_stores \ {vector_store_id[p]} |-> vector_stores[id]]
       \/ /\ Raise(p, Exc("Exception", << ExcSeg("boto3") >>))
          /\ UNCHANGED vector_stores
    /\ UNCHANGED << ANSWERING_LLM_MODEL, embedding_model_instance, retriever_cache,
                    answering_llm, routing_llm, threads, args, locals, load_count,
                    retriever_count, served, prior >>

\* The S3 client is made and the two artifacts are downloaded (counted as one
\* download of the partition).
LoadDownload(p) ==
    /\ pc[p] = "load_download"
    /\ calls' = Count(p, {"s3_client", "download"})
    /\ \/ /\ pc' = [pc EXCEPT ![p] = "load_local"]
          /\ UNCHANGED << result, outcome, exc, stages >>
       \/ \E ce \in ClientErrors : Raise(p, DownloadError(vector_store_id[p], ce))
       \/ Raise(p, Exc("Exception", << ExcSeg("boto3") >>))
    /\ UNCHANGED << module_state, threads, args, locals, load_count, retriever_count, served, prior >>

\* Mutant: a failed deserialization leaves a None marker in the index cache.
LoadLocal_MarksFailure(p) ==
    /\ pc[p] = "load_local"
    /\ calls' = Count(p, {"load_local"})
    /\ \/ LET id == vector_store_id[p]
              v == VectorStore(id, load_count[id] + 1)
          IN /\ vector_stores' = (id :> v) @@ vector_stores
             /\ load_count' = [load_count EXCEPT ![id] = @ + 1]
             /\ LoadReturn(p, v)
             /\ UNCHANGED stages
       \/ /\ Raise(p, Exc("Exception", << ExcSeg("FAISS.load_local") >>))
          /\ vector_stores' = (vector_store_id[p] :> NoVectorStore) @@ vector_stores
          /\ UNCHANGED << load_count, retriever_count, vs >>
    /\ UNCHANGED << ANSWERING_LLM_MODEL, embedding_model_instance, retriever_cache,
                    answering_llm, routing_llm, threads, args, vector_store_id, k,
                    answering_client, routing_client, attempt, llm_response,
                    chosen_vector_store_id, retriever, final_docs, prompt_inputs,
                    retriever_count, served, prior >>

\* LCFAISS.load_local and the write to the index cache. A failed load writes
\* nothing: the statement after the first raise of the handler is never run.
LoadLocal(p) ==
    /\ pc[p] = "load_local"
    /\ calls' = Count(p, {"load_local"})
    /\ \/ LET id == vector_store_id[p]
              v == VectorStore(id, load_count[id] + 1)
          IN /\ vector_stores' = (id :> v) @@ vector_stores
             /\ load_count' = [load_count EXCEPT ![id] = @ + 1]
             /\ LoadReturn(p, v)
             /\ UNCHANGED stages
       \/ /\ Raise(p, Exc("Exception", << ExcSeg("FAISS.load_local") >>))
          /\ UNCHANGED << vector_stores, load_count, retriever_count, vs >>
    /\ UNCHANGED << ANSWERING_LLM_MODEL, embedding_model_instance, retriever_cache,
                    answering_llm, routing_llm, threads, args, vector_store_id, k,
                    answering_client, routing_client, attempt, llm_response,
                    chosen_vector_store_id, retriever, final_docs, prompt_inputs,
                    retriever_count, served, prior >>

(***************************************************************************)
(* get_faiss_retriever                                                     *)
(***************************************************************************)
\* Mutant: the retriever cache is never consulted.
GfrCheck_AlwaysMisses(p) ==
    /\ pc[p] = "gfr_check"
    /\ LET key == CacheKey(vector_store_id[p], k[p])
       IN prior' = [prior EXCEPT ![p] =
                      IF key \in DOMAIN served THEN served[key] ELSE NoRetriever]
    /\ pc' = [pc EXCEPT ![p] = "load_check"]
    /\ calls' = Count(p, {"load_faiss_vector_store"})
    /\ UNCHANGED << module_state, threads, args, locals, result, outcome, exc,
                    load_count, retriever_count, served, stages >>

\* if cache_key not in _retriever_cache
GfrCheck(p) ==
    /\ pc[p] = "gfr_check"
    /\ LET key == CacheKey(vector_store_id[p], k[p])
       IN /\ prior' = [prior EXCEPT ![p] =
                         IF key \in DOMAIN served THEN served[key] ELSE NoRetriever]
          /\ IF key \in DOMAIN retriever_cache
             THEN /\ pc' = [pc EXCEPT ![p] = "gfr_return"]
                  /\ UNCHANGED calls
             ELSE /\ pc' = [pc EXCEPT ![p] = "load_check"]
                  /\ calls' = Count(p, {"load_faiss_vector_store"})
    /\ UNCHANGED << module_state, threads, args, locals, result, outcome, exc,
                    load_count, retriever_count, served, stages >>

\* Mutant: the insert is not race-free: the writer replaces the whole retriever
\* cache by a copy that holds its own entry only.
GfrStore_ReplacesCache(p) ==
    /\ pc[p] = "gfr_store"
    /\ LET key == CacheKey(vector_store_id[p], k[p])
           made == IF key \in DOMAIN retriever_count THEN retriever_count[key] ELSE 0
       IN /\ retriever_cache' =
               (key :> AsRetriever(vs[p], k[p], made + 1))
          /\ retriever_count' = (key :> made + 1) @@ retriever_count
    /\ pc' = [pc EXCEPT ![p] = "gfr_return"]
    /\ calls' = Count(p, {"as_retriever"})
    /\ UNCHANGED << ANSWERING_LLM_MODEL, embedding_model_instance, vector_stores,
                    answering_llm, routing_llm, threads, args, locals, result,
                    outcome, exc, load_count, served, prior, stages >>

\* _retriever_cache[cache_key] = vs.as_retriever(...)
GfrStore(p) ==
    /\ pc[p] = "gfr_store"
    /\ LET key == CacheKey(vector_store_id[p], k[p])
           made == IF key \in DOMAIN retriever_count THEN retriever_count[key] ELSE 0
       IN /\ retriever_cache' =
               (key :> AsRetriever(vs[p], k[p], made + 1)) @@ retriever_cache
          /\ retriever_count' = (key :> made + 1) @@ retriever_count
    /\ pc' = [pc EXCEPT ![p] = "gfr_return"]
    /\ calls' = Count(p, {"as_retriever"})
    /\ UNCHANGED << ANSWERING_LLM_MODEL, embedding_model_instance, vector_stores,
                    answering_llm, routing_llm, threads, args, locals, result,
                    outcome, exc, load_count, served, prior, stages >>

\* return _retriever_cache[cache_key]
GfrReturn(p) ==
    /\ pc[p] = "gfr_return"
    /\ LET key == CacheKey(vector_store_id[p], k[p])
           r == retriever_cache[key]
       IN /\ retriever' = [retriever EXCEPT ![p] = r]
          /\ served' = IF key \in DOMAIN served THEN served ELSE (key :> r) @@ served
          /\ IF op[p] = "get_faiss_retriever"
             THEN Return(p, Res("retriever", r))
             ELSE /\ pc' = [pc EXCEPT ![p] = "rag_invoke"]
                  /\ UNCHANGED << result, outcome, exc >>
    /\ UNCHANGED << module_state, threads, args, vector_store_id, k,
                    answering_client, routing_client, attempt, llm_response,
                    chosen_vector_store_id, vs, final_docs, prompt_inputs,
                    load_count, retriever_count, prior, stages, calls >>

(***************************************************************************)
(* format_retrieved_docs                                                   *)
(***************************************************************************)
SOURCE_ID_KEYS ==
    << "university_id", "profession_id", "course_id", "serial_no", "source_file" >>

\* Python truthiness of a metadata value.
Truthy(v) == v # "" /\ v # None

\* content = doc.metadata.get("blurb_text", doc.page_content)
DocContent(doc) ==
    LET meta == ChunkMetadata(doc)
    IN IF "blurb_text" \in DOMAIN meta THEN meta["blurb_text"] ELSE PageContent(doc)

\* The loop over source_id_keys: the first key with a truthy value wins; a
\* source_file that is present but falsy is shown as "source: ..."; else "N/A".
SourceId(doc) ==
    LET meta == ChunkMetadata(doc)
        hits == { i \in 1..Len(SOURCE_ID_KEYS) :
                    /\ SOURCE_ID_KEYS[i] \in DOMAIN meta
                    /\ Truthy(meta[SOURCE_ID_KEYS[i]]) }
    IN IF hits # {}
       THEN LET key == SOURCE_ID_KEYS[CHOOSE i \in hits : \A j \in hits : i <= j]
            IN key \o ": " \o meta[key]
       ELSE IF "source_file" \in DOMAIN meta
       THEN "source: " \o meta["source_file"]
       ELSE "N/A"

\* The block appended for the i-th document.
DocBlock(i, doc) ==
    << Lit("--- Document "), Seg("num", ToString(i)), Lit(" ---\nSource Info: "),
       Seg("source", SourceId(doc)), Lit("\n\nContent Chunk:\n"),
       Seg("chunk", DocContent(doc)), Lit("\n--- End Document "),
       Seg("num", ToString(i)), Lit(" ---") >>

RECURSIVE JoinBlocks(_, _)
JoinBlocks(docs, i) ==
    IF i > Len(docs) THEN << >>
    ELSE (IF i > 1 THEN << Lit("\n\n") >> ELSE << >>)
         \o DocBlock(i, docs[i]) \o JoinBlocks(docs, i + 1)

\* Mutant: no documents give an empty context.
FormatRetrievedDocs_EmptyContext(docs) ==
    IF Len(docs) = 0
    THEN [raises |-> FALSE, text |-> << >>]
    ELSE IF \E i \in 1..Len(docs) : DocContent(docs[i]) = None
    THEN [raises |-> TRUE,
          text |-> << ExcSeg("object of type 'NoneType' has no len()") >>]
    ELSE [raises |-> FALSE, text |-> JoinBlocks(docs, 1)]

\* format_retrieved_docs(docs): the text, or the TypeError that len(content)
\* raises for a document whose blurb_text is null.
FormatRetrievedDocs(docs) ==
    IF Len(docs) = 0
    THEN [raises |-> FALSE,
          text |-> << Lit("No relevant documents found in the specified knowledge base.") >>]
    ELSE IF \E i \in 1..Len(docs) : DocContent(docs[i]) = None
    THEN [raises |-> TRUE,
          text |-> << ExcSeg("object of type 'NoneType' has no len()") >>]
    ELSE [raises |-> FALSE, text |-> JoinBlocks(docs, 1)]

(***************************************************************************)
(* do_rag_query                                                            *)
(***************************************************************************)
\* json.dumps(user_profile or {}, indent=2, default=str)
ProfileJson(profile) ==
    IF profile = None \/ profile = "empty"
    THEN << Seg("profile", "{}") >>
    ELSE << Seg("profile", "{\"target_country\": \"Canada\"}") >>

\* What the answering model may write: an answer, or the empty string.
Answers == { << Seg("llm", "answer") >>, << >> }

\* The exception generation_chain.invoke(prompt_inputs) raises when the model
\* or the transport fails: the client library's error text.
GenerationError(inputs) == Exc("Exception", << ExcSeg("openai") >>)

\* answering_llm = get_llm(ANSWERING_LLM_MODEL), then the routing step starts.
RagGetLlm(p) ==
    /\ pc[p] = "rag_get_llm"
    /\ calls' = Count(p, {"get_llm"})
    /\ \/ /\ answering_client' =
               [answering_client EXCEPT ![p] = GetLlm(ANSWERING_LLM_MODEL).client]
          /\ answering_llm' = GetLlm(ANSWERING_LLM_MODEL).answering_llm
          /\ routing_llm' = GetLlm(ANSWERING_LLM_MODEL).routing_llm
          /\ pc' = [pc EXCEPT ![p] = "route"]
          /\ attempt' = [attempt EXCEPT ![p] = 1]
          /\ stages' = Enter(p, "ROUTING")
          /\ UNCHANGED << result, outcome, exc >>
       \/ /\ GetLlmBuilds(ANSWERING_LLM_MODEL)
          /\ Raise(p, Exc("Exception", << ExcSeg("ChatOpenAI") >>))
          /\ UNCHANGED << answering_client, answering_llm, routing_llm, attempt >>
    /\ UNCHANGED << ANSWERING_LLM_MODEL, embedding_model_instance, vector_stores,
                    retriever_cache, threads, args, vector_store_id, k,
                    routing_client, llm_response, chosen_vector_store_id, vs,
                    retriever, final_docs, prompt_inputs, load_count, retriever_count, served, prior >>

\* Mutant: a failed routing falls back to a default store (the strategy the
\* comment in the source sketches) instead of returning.
RagCheck_FallsBackToDefault(p) ==
    /\ pc[p] = "rag_check"
    /\ vector_store_id' = [vector_store_id EXCEPT ![p] =
                              IF chosen_vector_store_id[p] = None
                              THEN "university_details" ELSE chosen_vector_store_id[p]]
    /\ k' = [k EXCEPT ![p] = top_k[p]]
    /\ pc' = [pc EXCEPT ![p] = "gfr_check"]
    /\ stages' = Enter(p, "RETRIEVING")
    /\ calls' = Count(p, {"get_faiss_retriever"})
    /\ UNCHANGED << module_state, threads, args, answering_client, routing_client,
                    attempt, llm_response, chosen_vector_store_id, vs, retriever,
                    final_docs, prompt_inputs, result, outcome, exc, load_count,
                    retriever_count, served, prior >>

\* Mutant: a failed routing is tried again by the orchestrator.
RagCheck_RetriesRouting(p) ==
    /\ pc[p] = "rag_check"
    /\ IF chosen_vector_store_id[p] = None
       THEN /\ pc' = [pc EXCEPT ![p] = "route"]
            /\ attempt' = [attempt EXCEPT ![p] = 1]
            /\ stages' = Enter(p, "ROUTING")
            /\ UNCHANGED << vector_store_id, k, calls >>
       ELSE /\ vector_store_id' = [vector_store_id EXCEPT ![p] = chosen_vector_store_id[p]]
            /\ k' = [k EXCEPT ![p] = top_k[p]]
            /\ pc' = [pc EXCEPT ![p] = "gfr_check"]
            /\ stages' = Enter(p, "RETRIEVING")
            /\ calls' = Count(p, {"get_faiss_retriever"})
            /\ UNCHANGED attempt
    /\ UNCHANGED << module_state, threads, args, answering_client, routing_client,
                    llm_response, chosen_vector_store_id, vs, retriever,
                    final_docs, prompt_inputs, result, outcome, exc, load_count,
                    retriever_count, served, prior >>

\* if not chosen_vector_store_id: return the routing-failure text; else the
\* retrieval step starts with the call of get_faiss_retriever.
RagCheck(p) ==
    /\ pc[p] = "rag_check"
    /\ IF chosen_vector_store_id[p] = None \/ chosen_vector_store_id[p] = ""
       THEN /\ Return(p, Res("str", RoutingFailureText))
            /\ stages' = Enter(p, "FAILED")
            /\ UNCHANGED << vector_store_id, k, calls >>
       ELSE /\ vector_store_id' = [vector_store_id EXCEPT ![p] = chosen_vector_store_id[p]]
            /\ k' = [k EXCEPT ![p] = top_k[p]]
            /\ pc' = [pc EXCEPT ![p] = "gfr_check"]
            /\ stages' = Enter(p, "RETRIEVING")
            /\ calls' = Count(p, {"get_faiss_retriever"})
            /\ UNCHANGED << result, outcome, exc >>
    /\ UNCHANGED << module_state, threads, args, answering_client, routing_client,
                    attempt, llm_response, chosen_vector_store_id, vs, retriever,
                    final_docs, prompt_inputs, load_count, retriever_count, served, prior >>

\* Mutant: the profile is made part of the search request, so a profile with
\* attributes changes the ranking.
RagInvoke_SearchesWithProfile(p) ==
    /\ pc[p] = "rag_invoke"
    /\ calls' = Count(p, {"retriever_invoke"})
    /\ \/ /\ retriever[p].k >= 0
          /\ final_docs' = [final_docs EXCEPT ![p] =
                              SimilaritySearch(retriever[p],
                                  IF user_profile[p] = "attrs" THEN "q2"
                                  ELSE user_query[p])]
          /\ pc' = [pc EXCEPT ![p] = "rag_generate"]
          /\ stages' = Enter(p, "GENERATING")
          /\ UNCHANGED << result, outcome, exc >>
       \/ /\ ReturnCaught(p,
                 Res("str", UnavailableText(chosen_vector_store_id[p])),
                 Exc("FileNotFoundError", << ExcSeg("retriever.invoke") >>))
          /\ stages' = Enter(p, "FAILED")
          /\ UNCHANGED final_docs
       \/ /\ ReturnCaught(p,
                 Res("str", RetrievalErrorText(chosen_vector_store_id[p])),
                 Exc("Exception", << ExcSeg("retriever.invoke") >>))
          /\ stages' = Enter(p, "FAILED")
          /\ UNCHANGED final_docs
    /\ UNCHANGED << module_state, threads, args, vector_store_id, k,
                    answering_client, routing_client, attempt, llm_response,
                    chosen_vector_store_id, vs, retriever, prompt_inputs,
                    load_count, retriever_count, served, prior >>

\* final_docs = retriever.invoke(user_query), in its own try. The search backend
\* refuses a result count below 1 (older versions return nothing for 0).
RagInvoke(p) ==
    /\ pc[p] = "rag_invoke"
    /\ calls' = Count(p, {"retriever_invoke"})
    /\ \/ /\ retriever[p].k >= 0
          /\ final_docs' = [final_docs EXCEPT ![p] =
                              SimilaritySearch(retriever[p], user_query[p])]
          /\ pc' = [pc EXCEPT ![p] = "rag_generate"]
          /\ stages' = Enter(p, "GENERATING")
          /\ UNCHANGED << result, outcome, exc >>
       \/ /\ ReturnCaught(p,
                 Res("str", UnavailableText(chosen_vector_store_id[p])),
                 Exc("FileNotFoundError", << ExcSeg("retriever.invoke") >>))
          /\ stages' = Enter(p, "FAILED")
          /\ UNCHANGED final_docs
       \/ /\ ReturnCaught(p,
                 Res("str", RetrievalErrorText(chosen_vector_store_id[p])),
                 Exc("Exception", << ExcSeg("retriever.invoke") >>))
          /\ stages' = Enter(p, "FAILED")
          /\ UNCHANGED final_docs
    /\ UNCHANGED << module_state, threads, args, vector_store_id, k,
                    answering_client, routing_client, attempt, llm_response,
                    chosen_vector_store_id, vs, retriever, prompt_inputs,
                    load_count, retriever_count, served, prior >>

\* Mutant: when the answering model fails, the handler shows the retrieved
\* context after its apology.
RagGenerate_ShowsEvidence(p) ==
    /\ pc[p] = "rag_generate"
    /\ LET fmt == FormatRetrievedDocs(final_docs[p])
           inputs == [context |-> fmt.text, question |-> user_query[p],
                      user_profile_json |-> ProfileJson(user_profile[p])]
       IN \/ /\ fmt.raises
             /\ Raise(p, Exc("TypeError", fmt.text))
             /\ calls' = Count(p, {"format_retrieved_docs"})
             /\ UNCHANGED prompt_inputs
          \/ /\ ~fmt.raises
             /\ prompt_inputs' = [prompt_inputs EXCEPT ![p] = inputs]
             /\ calls' = Count(p, {"format_retrieved_docs", "generate_model"})
             /\ \E response \in Answers :
                  /\ Return(p, Res("str", response))
                  /\ stages' = Enter(p, "DONE")
          \/ /\ ~fmt.raises
             /\ prompt_inputs' = [prompt_inputs EXCEPT ![p] = inputs]
             /\ calls' = Count(p, {"format_retrieved_docs", "generate_model"})
             /\ ReturnCaught(p, Res("str", UnexpectedErrorText(GenerationError(inputs))
                                            \o inputs.context),
                             GenerationError(inputs))
             /\ stages' = Enter(p, "FAILED")
    /\ UNCHANGED << module_state, threads, args, vector_store_id, k,
                    answering_client, routing_client, attempt, llm_response,
                    chosen_vector_store_id, vs, retriever, final_docs,
                    load_count, retriever_count, served, prior >>

\* The documents are formatted, the prompt inputs are built, and the answering
\* model is invoked.
RagGenerate(p) ==
    /\ pc[p] = "rag_generate"
    /\ LET fmt == FormatRetrievedDocs(final_docs[p])
           inputs == [context |-> fmt.text, question |-> user_query[p],
                      user_profile_json |-> ProfileJson(user_profile[p])]
       IN \/ /\ fmt.raises
             /\ Raise(p, Exc("TypeError", fmt.text))
             /\ calls' = Count(p, {"format_retrieved_docs"})
             /\ UNCHANGED prompt_inputs
          \/ /\ ~fmt.raises
             /\ prompt_inputs' = [prompt_inputs EXCEPT ![p] = inputs]
             /\ calls' = Count(p, {"format_retrieved_docs", "generate_model"})
             /\ \E response \in Answers :
                  /\ Return(p, Res("str", response))
                  /\ stages' = Enter(p, "DONE")
          \/ /\ ~fmt.raises
             /\ prompt_inputs' = [prompt_inputs EXCEPT ![p] = inputs]
             /\ calls' = Count(p, {"format_retrieved_docs", "generate_model"})
             /\ Raise(p, GenerationError(inputs))
    /\ UNCHANGED << module_state, threads, args, vector_store_id, k,
                    answering_client, routing_client, attempt, llm_response,
                    chosen_vector_store_id, vs, retriever, final_docs,
                    load_count, retriever_count, served, prior >>

(***************************************************************************)
(* Specifications.                                                         *)
(***************************************************************************)
Next ==
    \E p \in Procs :
        \/ StartRag(p, Queries, Profiles, TopKs) \/ StartRoute(p) \/ StartGetRetriever(p, DirectIds, TopKs)
        \/ StartLoad(p)
        \/ RagGetLlm(p) \/ Route(p, RouterReplies) \/ RagCheck(p)
        \/ GfrCheck(p) \/ LoadCheck(p) \/ LoadEmbed(p) \/ LoadDownload(p)
        \/ LoadLocal(p) \/ GfrStore(p) \/ GfrReturn(p)
        \/ RagInvoke(p) \/ RagGenerate(p) \/ Finish(p)

\* Calls made one after the other by a single thread.
Spec == Init /\ [][Next]_vars

\* The router alone, over every raw output up to MaxRawLen tokens.
NextRoute ==
    \E p \in Procs : StartRoute(p) \/ Route(p, RawOutputs) \/ Finish(p)

SpecRoute == Init /\ [][NextRoute]_vars

\* A step of a call that thread p is running: the thread is scheduled, and every
\* service call it makes returns or fails within its timeout.
Step(p) ==
    \/ RagGetLlm(p) \/ Route(p, RouterReplies) \/ RagCheck(p)
    \/ GfrCheck(p) \/ LoadCheck(p) \/ LoadEmbed(p) \/ LoadDownload(p)
    \/ LoadLocal(p) \/ GfrStore(p) \/ GfrReturn(p)
    \/ RagInvoke(p) \/ RagGenerate(p)

\* The sequential specification, with every running call kept going.
SpecLive == Init /\ [][Next]_vars /\ \A p \in Procs : WF_vars(Step(p))

\* Two threads (two sessions of the application) calling the router and
\* get_faiss_retriever at the same time, on one partition and two values of k.
ConcurrentIds == {"university_details"}
ConcurrentKs == {2, DEFAULT_TOP_K}
ConcurrentReplies ==
    { << "university_details" >>, << "vs_processed_data_university" >>, << >> }

NextConcurrent ==
    \E p \in Procs :
        \/ StartRoute(p) \/ Route(p, ConcurrentReplies)
        \/ StartGetRetriever(p, ConcurrentIds, ConcurrentKs)
        \/ GfrCheck(p) \/ LoadCheck(p) \/ LoadEmbed(p) \/ LoadDownload(p)
        \/ LoadLocal(p) \/ GfrStore(p) \/ GfrReturn(p) \/ Finish(p)

SpecConcurrent == InitWith(Procs) /\ [][NextConcurrent]_vars

\* Two threads interleaving all three entry points: one thread calls
\* load_faiss_vector_store and get_faiss_retriever while the other runs
\* do_rag_query, whose router sends it to the partition the first thread uses.
InterleavedReplies == { << "university_details" >> }

NextInterleaved ==
    \/ StartLoad(1)
    \/ StartGetRetriever(1, ConcurrentIds, ConcurrentKs)
    \/ StartRag(2, {"q1"}, {None}, {2})
    \/ \E p \in Procs :
        \/ RagGetLlm(p) \/ Route(p, InterleavedReplies) \/ RagCheck(p)
        \/ GfrCheck(p) \/ LoadCheck(p) \/ LoadEmbed(p) \/ LoadDownload(p)
        \/ LoadLocal(p) \/ GfrStore(p) \/ GfrReturn(p)
        \/ RagInvoke(p) \/ RagGenerate(p) \/ Finish(p)

SpecInterleaved == InitWith(Procs) /\ [][NextInterleaved]_vars

(***************************************************************************)
(* Properties.                                                             *)
(***************************************************************************)
RagDone(p) == op[p] = "do_rag_query" /\ pc[p] = "done"

\* The invocation ended on a failure path.
Failed(p) == stages[p] # << >> /\ stages[p][Len(stages[p])] = "FAILED"

NonEmptyText(text) == \E i \in 1..Len(text) : text[i].v # ""

InSeq(x, sq) == \E i \in 1..Len(sq) : sq[i] = x

\* C1: do_rag_query never raises to its caller: whatever the query, profile and
\* top_k and whichever of its dependencies fail, it returns a string, and on
\* every failure path that string is not empty.
C1_NeverRaises ==
    \A p \in Procs :
        RagDone(p) =>
            /\ outcome[p] = "returned"
            /\ result[p].kind = "str"
            /\ Failed(p) => NonEmptyText(result[p].val)

\* A call with profile None whose answering model failed after a retrieval.
C1_Witness ==
    \E p \in Procs :
        /\ RagDone(p) /\ Failed(p) /\ outcome[p] = "returned"
        /\ user_profile[p] = None
        /\ calls[p]["generate_model"] = 1
        /\ exc[p].cls = "Exception"

\* The router has returned None to do_rag_query in this invocation.
RoutedNone(p) ==
    /\ op[p] = "do_rag_query"
    /\ pc[p] \in {"rag_check", "gfr_check", "load_check", "load_embed",
                  "load_download", "load_local", "gfr_store", "gfr_return",
                  "rag_invoke", "rag_generate", "done"}
    /\ calls[p]["route_model"] >= 1
    /\ chosen_vector_store_id[p] = None

\* C2: when the router returns None, do_rag_query returns the text saying the
\* knowledge base could not be determined, and neither get_faiss_retriever,
\* load_faiss_vector_store, the storage, the retriever nor the answering model
\* is invoked in that invocation.
C2_NoRetrievalWithoutPartition ==
    \A p \in Procs :
        RoutedNone(p) =>
            /\ \A c \in { "get_faiss_retriever", "load_faiss_vector_store",
                          "get_embedding_model", "s3_client", "download",
                          "load_local", "as_retriever", "retriever_invoke",
                          "format_retrieved_docs", "generate_model" } :
                 calls[p][c] = 0
            /\ pc[p] \in {"rag_check", "done"}
            /\ pc[p] = "done" =>
                 /\ outcome[p] = "returned"
                 /\ result[p] = Res("str", RoutingFailureText)

C2_Witness ==
    \E p \in Procs : RoutedNone(p) /\ pc[p] = "done" /\ exc[p] = NoExc

StoragePrefixes == { VECTOR_STORE_IDS[id] : id \in DOMAIN VECTOR_STORE_IDS }

\* C3: whatever the routing model writes, and when it fails, the value
\* route_query_to_store returns is None or a key of VECTOR_STORE_IDS, never a
\* storage prefix or an id that is not registered.
C3_RouteReturnsRegisteredKey ==
    \A p \in Procs :
        /\ chosen_vector_store_id[p] \in DOMAIN VECTOR_STORE_IDS \cup {None}
        /\ (op[p] = "route_query_to_store" /\ pc[p] = "done" /\ outcome[p] = "returned") =>
             /\ result[p].kind = "key"
             /\ result[p].val \in DOMAIN VECTOR_STORE_IDS \cup {None}
             /\ result[p].val \notin StoragePrefixes

\* The model wrote a storage prefix and the router gave the partition's key.
C3_Witness ==
    \E p \in Procs :
        /\ op[p] = "route_query_to_store" /\ pc[p] = "done"
        /\ CleanResponse(llm_response[p]) = "vs_processed_data_university"
        /\ result[p] = Res("key", "university_details")

ChunkSegs(text) == SelectSeq(text, LAMBDA sg : sg.t = "chunk")

\* The content texts of the chunks stored for a partition.
PartitionTexts(part) ==
    { DocContent(Chunk(part, n)) : n \in 1..ChunkCount(part) }

\* C4: the chunks formatted into the generation prompt all come from the one
\* partition the router chose in this invocation; there are at most top_k of
\* them, and exactly as many as the partition holds when it holds fewer.
C4_ChunksFromChosenPartition ==
    \A p \in Procs :
        (op[p] = "do_rag_query" /\ prompt_inputs[p] # NoPrompt) =>
            LET cs == ChunkSegs(prompt_inputs[p].context)
                part == chosen_vector_store_id[p]
            IN /\ part \in DOMAIN VECTOR_STORE_IDS
               /\ \A i \in 1..Len(cs) :
                    /\ cs[i].v \in PartitionTexts(part)
                    /\ \A other \in DOMAIN VECTOR_STORE_IDS \ {part} :
                         cs[i].v \notin PartitionTexts(other)
               /\ Len(cs) <= top_k[p]
               /\ ChunkCount(part) < top_k[p] => Len(cs) = ChunkCount(part)

\* top_k = 5 against the partition that holds two chunks: two chunks, no error.
C4_Witness ==
    \E p \in Procs :
        /\ RagDone(p) /\ ~Failed(p)
        /\ chosen_vector_store_id[p] = "university_details"
        /\ top_k[p] = DEFAULT_TOP_K
        /\ Len(ChunkSegs(prompt_inputs[p].context)) = 2

IsPrefix(sq, of) == Len(sq) <= Len(of) /\ \A i \in 1..Len(sq) : sq[i] = of[i]

StageOrder == << "ROUTING", "RETRIEVING", "GENERATING", "DONE" >>

\* C5: an invocation enters its stages only in the order ROUTING, RETRIEVING,
\* GENERATING, DONE, each at most once; FAILED may follow any of the first
\* three (or precede them all) and nothing follows FAILED or DONE; RETRIEVING
\* is entered only with a partition id from the router, and GENERATING only
\* after the retriever has returned.
C5_LinearStages ==
    \A p \in Procs :
        op[p] = "do_rag_query" =>
            LET st == stages[p]
                n == Len(st)
            IN /\ \/ IsPrefix(st, StageOrder)
                  \/ /\ n >= 1 /\ st[n] = "FAILED"
                     /\ IsPrefix(SubSeq(st, 1, n - 1), SubSeq(StageOrder, 1, 3))
               /\ (InSeq("FAILED", st) \/ InSeq("DONE", st)) => pc[p] = "done"
               /\ InSeq("RETRIEVING", st) =>
                    /\ calls[p]["route_model"] = 1
                    /\ chosen_vector_store_id[p] \in DOMAIN VECTOR_STORE_IDS
               /\ InSeq("GENERATING", st) =>
                    /\ calls[p]["retriever_invoke"] = 1
                    /\ retriever[p] # NoRetriever
                    /\ retriever[p].part = chosen_vector_store_id[p]

\* An invocation that failed in its last stage, after the two before it.
C5_Witness ==
    \E p \in Procs :
        /\ op[p] = "do_rag_query"
        /\ stages[p] = << "ROUTING", "RETRIEVING", "GENERATING", "FAILED" >>

\* C6 (as claimed): when the load of the routed partition raises the not-found
\* error, do_rag_query returns the text naming that partition as unavailable.
C6_MissingArtifactsUnavailable ==
    \A p \in Procs :
        (RagDone(p) /\ exc[p].cls = "FileNotFoundError" /\ calls[p]["download"] >= 1) =>
            result[p] = Res("str", UnavailableText(chosen_vector_store_id[p]))

\* The invocation failed in its retrieval stage.
FailedRetrieving(p) ==
    RagDone(p) /\ stages[p] = << "ROUTING", "RETRIEVING", "FAILED" >>

\* C7 (as claimed): when the retrieval stage fails for a reason other than
\* missing artifacts, do_rag_query returns the retrieval-error text naming the
\* routed partition.
C7_RetrievalErrorNamesPartition ==
    \A p \in Procs :
        (FailedRetrieving(p) /\ exc[p].cls # "FileNotFoundError") =>
            result[p] = Res("str", RetrievalErrorText(chosen_vector_store_id[p]))

\* The answering model was invoked and the invocation failed.
GenerationFailed(p) ==
    RagDone(p) /\ Failed(p) /\ calls[p]["generate_model"] = 1

\* C8: when the answering model fails after a successful retrieval, do_rag_query
\* returns the generic apology text followed by the error's own text, and no
\* part of it is text of a retrieved chunk.
C8_GenerationFailureHidesChunks ==
    \A p \in Procs :
        GenerationFailed(p) =>
            /\ outcome[p] = "returned" /\ result[p].kind = "str"
            /\ result[p].val = UnexpectedErrorText(exc[p])
            /\ \A i \in 1..Len(result[p].val) :
                 /\ result[p].val[i].t # "chunk"
                 /\ \A j \in 1..Len(final_docs[p]) :
                      result[p].val[i].v # DocContent(final_docs[p][j])

\* Two chunks were retrieved and formatted, then the model failed.
C8_Witness ==
    \E p \in Procs :
        /\ GenerationFailed(p)
        /\ Len(final_docs[p]) = 2
        /\ Len(ChunkSegs(prompt_inputs[p].context)) = 2

\* C9 (as claimed): on every failure path the returned text holds no exception
\* text and no internal identifier (bucket name, storage prefix).
C9_NoInternalsInFailureText ==
    \A p \in Procs :
        (RagDone(p) /\ Failed(p) /\ result[p].kind = "str") =>
            \A i \in 1..Len(result[p].val) :
                result[p].val[i].t \notin {"exc", "bucket", "prefix"}

\* C10: once get_faiss_retriever(p, k) has returned a retriever, every later
\* call with the same p and k finds it in the cache: it returns that same
\* object and makes no S3 client, no download and no index load.
C10_CachedRetrieverReused ==
    \A p \in Procs :
        prior[p] # NoRetriever =>
            /\ pc[p] \in {"gfr_return", "rag_invoke", "rag_generate", "done"}
            /\ \A c \in {"get_embedding_model", "s3_client", "download",
                         "load_local", "as_retriever"} : calls[p][c] = 0
            /\ retriever[p] # NoRetriever => retriever[p] = prior[p]
            /\ (op[p] = "get_faiss_retriever" /\ pc[p] = "done") =>
                 /\ outcome[p] = "returned"
                 /\ result[p] = Res("retriever", prior[p])

\* A direct call served from the cache, after the index was loaded once.
C10_Witness ==
    \E p \in Procs :
        /\ op[p] = "get_faiss_retriever" /\ pc[p] = "done"
        /\ prior[p] # NoRetriever
        /\ result[p] = Res("retriever", prior[p])
        /\ load_count[vector_store_id[p]] = 1

\* The index of partition id is in the index cache.
IndexCached(id) == id \in DOMAIN vector_stores /\ vector_stores[id] # NoVectorStore

\* C11: in calls that do not overlap, each partition's artifacts are downloaded
\* and loaded with success at most once, whatever k values are asked for: a
\* call that finds the index cached never reaches the download, and the
\* retriever it makes is built from the cached index object.
C11_LoadedAtMostOnce ==
    /\ \A id \in DOMAIN VECTOR_STORE_IDS :
         /\ load_count[id] <= 1
         /\ IndexCached(id) <=> load_count[id] = 1
    /\ \A p \in Procs :
         /\ pc[p] \in {"load_embed", "load_download", "load_local"} =>
              ~IndexCached(vector_store_id[p])
         /\ (pc[p] = "gfr_store" /\ calls[p]["download"] = 0) =>
              /\ calls[p]["s3_client"] = 0 /\ calls[p]["load_local"] = 0
              /\ vs[p] = vector_stores[vector_store_id[p]]

\* get_faiss_retriever(p, 2) made a new retriever without any download, after
\* get_faiss_retriever(p, 5) had loaded the index.
C11_Witness ==
    \E p \in Procs :
        /\ op[p] = "get_faiss_retriever" /\ pc[p] = "done" /\ outcome[p] = "returned"
        /\ k[p] = 2
        /\ calls[p]["as_retriever"] = 1 /\ calls[p]["download"] = 0
        /\ CacheKey(vector_store_id[p], DEFAULT_TOP_K) \in DOMAIN retriever_cache
        /\ load_count[vector_store_id[p]] = 1

\* C12 (as claimed): when calls for the same uncached partition run at the same
\* time, the partition's artifacts are not loaded once per caller: at most one
\* caller is in the download or the load of a partition at any time, and the
\* partition is loaded at most once.
C12_OneLoadForConcurrentCallers ==
    \A id \in DOMAIN VECTOR_STORE_IDS :
        /\ load_count[id] <= 1
        /\ Cardinality({ p \in Procs :
                            /\ vector_store_id[p] = id
                            /\ pc[p] \in {"load_embed", "load_download",
                                          "load_local"} }) <= 1

\* The id the thread's load was called with is not a key of the registry.
UnknownId(p) ==
    vector_store_id[p] # None /\ vector_store_id[p] \notin DOMAIN VECTOR_STORE_IDS

\* C13: load_faiss_vector_store called with an id that is not registered raises
\* ValueError before the embedding client, the S3 client, a download or a load
\* is reached, whatever the caches hold from earlier calls.
C13_UnknownIdFailsBeforeIO ==
    \A p \in Procs :
        UnknownId(p) =>
            /\ pc[p] \in {"gfr_check", "load_check", "done"}
            /\ \A c \in {"get_embedding_model", "s3_client", "download", "load_local"} :
                 calls[p][c] = 0
            /\ pc[p] = "done" =>
                 /\ outcome[p] = "raised"
                 /\ exc[p].cls = "ValueError"
                 /\ result[p] = Res("exc", exc[p])

\* The unknown id was refused in a process that had already built the embedding
\* client and loaded an index.
C13_Witness ==
    \E p \in Procs :
        /\ op[p] = "load_faiss_vector_store" /\ pc[p] = "done" /\ UnknownId(p)
        /\ exc[p].cls = "ValueError"
        /\ embedding_model_instance = TRUE
        /\ IndexCached("university_details")

\* The parsing policy as claimed: whitespace and quote characters are trimmed
\* from both ends of the output, and what is left is compared.
TrimTokens == WhitespaceTokens \cup QuoteTokens

RECURSIVE LTrim(_)
LTrim(s) == IF s # << >> /\ Head(s) \in TrimTokens THEN LTrim(Tail(s)) ELSE s

RECURSIVE RTrim(_)
RTrim(s) ==
    IF s # << >> /\ s[Len(s)] \in TrimTokens
    THEN RTrim(SubSeq(s, 1, Len(s) - 1))
    ELSE s

ClaimedRouting(raw) ==
    LET cleaned == Join(RTrim(LTrim(raw)))
    IN IF cleaned \in DOMAIN VECTOR_STORE_IDS THEN cleaned
       ELSE IF \E id \in DOMAIN VECTOR_STORE_IDS : VECTOR_STORE_IDS[id] = cleaned
       THEN CHOOSE id \in DOMAIN VECTOR_STORE_IDS : VECTOR_STORE_IDS[id] = cleaned
       ELSE None

\* The thread's direct call of the router returned what it made of an output
\* of the model (the model call did not fail).
RouteAnswered(p) ==
    /\ op[p] = "route_query_to_store" /\ pc[p] = "done"
    /\ outcome[p] = "returned" /\ exc[p] = NoExc

\* C14 (as claimed): the router trims whitespace and quote characters from the
\* model's output and returns the id the trimmed text equals, else the id of
\* the partition whose storage location it equals, else None.
C14_RouterParsingPolicy ==
    \A p \in Procs :
        RouteAnswered(p) => result[p] = Res("key", ClaimedRouting(llm_response[p]))

\* The model call of the thread's direct routing request raised.
RouteModelFailed(p) ==
    /\ op[p] = "route_query_to_store" /\ pc[p] = "done"
    /\ exc[p] = Exc("Exception", << ExcSeg("openai") >>)

\* C15 (as claimed): a routing request whose model call fails calls the model
\* exactly once more, and no request calls the model more than twice.
C15_RouterRetriesModelOnce ==
    \A p \in Procs :
        /\ calls[p]["route_model"] <= STOP_AFTER_ATTEMPT
        /\ RouteModelFailed(p) => calls[p]["route_model"] = 2

\* The retriever of the invocation returned, and returned no chunk.
ZeroChunks(p) ==
    /\ op[p] = "do_rag_query" /\ pc[p] \in {"rag_generate", "done"}
    /\ calls[p]["retriever_invoke"] = 1
    /\ exc[p].text # << ExcSeg("retriever.invoke") >>
    /\ final_docs[p] = << >>

\* C16: when the retriever returns no chunk, the context given to the answering
\* model is a text that is not empty and says that no relevant documents were
\* found, and the invocation enters GENERATING and calls the answering model
\* with it.
C16_EmptyRetrievalStillGenerates ==
    \A p \in Procs :
        ZeroChunks(p) =>
            /\ InSeq("GENERATING", stages[p])
            /\ pc[p] = "done" =>
                 /\ calls[p]["format_retrieved_docs"] = 1
                 /\ calls[p]["generate_model"] = 1
                 /\ NonEmptyText(prompt_inputs[p].context)
                 /\ prompt_inputs[p].context =
                      << Lit("No relevant documents found in the specified knowledge base.") >>
                 /\ prompt_inputs[p].question = user_query[p]

\* A query with top_k = 0 was answered from the no-documents context.
C16_Witness ==
    \E p \in Procs :
        /\ ZeroChunks(p) /\ RagDone(p) /\ ~Failed(p)
        /\ stages[p] = StageOrder
        /\ result[p] = Res("str", << Seg("llm", "answer") >>)

\* The invocation's retriever has returned its documents.
Retrieved(p) ==
    /\ op[p] = "do_rag_query" /\ pc[p] \in {"rag_generate", "done"}
    /\ InSeq("GENERATING", stages[p])

\* C17: the profile enters the generation prompt only. In every invocation the
\* partition asked for, the retriever cache key, the retriever, the search
\* request and the retrieved chunks are functions of the query, top_k, the
\* router's answer and the caches, so that two invocations that differ in the
\* profile alone agree on all of them; the prompt's context and question are
\* functions of the chunks and the query, and the profile fills only the
\* prompt's user_profile_json.
C17_ProfileOnlyInPrompt ==
    \A p \in Procs :
        op[p] = "do_rag_query" =>
            /\ pc[p] \in {"gfr_check", "load_check", "load_embed", "load_download",
                          "load_local", "gfr_store", "gfr_return", "rag_invoke",
                          "rag_generate"} =>
                 /\ vector_store_id[p] = chosen_vector_store_id[p]
                 /\ k[p] = top_k[p]
            /\ retriever[p] # NoRetriever =>
                 /\ retriever[p] =
                      retriever_cache[CacheKey(chosen_vector_store_id[p], top_k[p])]
                 /\ retriever[p].part = chosen_vector_store_id[p]
                 /\ retriever[p].k = top_k[p]
            /\ Retrieved(p) =>
                 final_docs[p] = SimilaritySearch(retriever[p], user_query[p])
            /\ prompt_inputs[p] # NoPrompt =>
                 /\ prompt_inputs[p].context = FormatRetrievedDocs(final_docs[p]).text
                 /\ prompt_inputs[p].question = user_query[p]
                 /\ prompt_inputs[p].user_profile_json = ProfileJson(user_profile[p])

\* An invocation with a profile of attributes retrieved two chunks and put the
\* profile in its prompt.
C17_Witness ==
    \E p \in Procs :
        /\ RagDone(p) /\ ~Failed(p)
        /\ user_profile[p] = "attrs" /\ user_query[p] = "q1"
        /\ Len(final_docs[p]) = 2
        /\ prompt_inputs[p].user_profile_json = ProfileJson("attrs")

\* C18 (as claimed): do_rag_query rejects a top_k outside 1..10 or clamps it
\* into 1..10 before it asks for a retriever, so that it never asks for,
\* creates or uses a retriever whose result count is outside 1..10.
C18_TopKClamped ==
    \A p \in Procs :
        op[p] = "do_rag_query" =>
            /\ calls[p]["get_faiss_retriever"] >= 1 => k[p] \in 1..10
            /\ retriever[p] # NoRetriever => retriever[p].k \in 1..10
            /\ calls[p]["as_retriever"] >= 1 =>
                 \A key \in DOMAIN retriever_cache : retriever_cache[key].k \in 1..10

\* The invocation has returned, from DONE or from FAILED.
Terminated(p) ==
    /\ RagDone(p) /\ outcome[p] = "returned"
    /\ stages[p] # << >>
    /\ stages[p][Len(stages[p])] \in {"DONE", "FAILED"}

\* C19: every invocation of do_rag_query eventually reaches DONE or FAILED and
\* returns, provided the thread keeps running and each call to a service
\* returns or fails.
C19_EveryQueryReturns ==
    \A p \in Procs : (op[p] = "do_rag_query") ~> Terminated(p)

\* An invocation that returned an answer after the router's first attempt had
\* failed and been retried.
C19_Witness ==
    \E p \in Procs :
        /\ Terminated(p) /\ ~Failed(p)
        /\ calls[p]["get_llm"] = 3 /\ calls[p]["route_model"] = 1

C21_TwoDistinctClients ==
    \A p \in Procs :
        /\ routing_client[p] # NoClient =>
             /\ routing_client[p].temperature = "0.0"
             /\ routing_client[p].request_timeout = 45
        /\ answering_client[p] # NoClient =>
             /\ answering_client[p].temperature = "0.3"
             /\ answering_client[p].request_timeout = 90
        /\ (routing_client[p] # NoClient /\ answering_client[p] # NoClient) =>
             routing_client[p] # answering_client[p]

\* Thread p's call of get_faiss_retriever has returned a retriever.
GotRetriever(p) ==
    /\ op[p] = "get_faiss_retriever" /\ pc[p] = "done" /\ outcome[p] = "returned"

\* C22: under every interleaving of get_faiss_retriever calls for the same
\* partition the caches stay well formed: the index cache holds one loaded
\* index for the partition, the one written by the latest load; the retriever
\* cache holds, under each key asked for and served, one retriever of that
\* partition and k; and every caller gets a retriever of the partition and k
\* it asked for.
C22_ConcurrentCachesWellFormed ==
    /\ \A id \in DOMAIN VECTOR_STORE_IDS :
         /\ load_count[id] >= 1 <=> IndexCached(id)
         /\ IndexCached(id) => vector_stores[id] = VectorStore(id, load_count[id])
    /\ \A key \in DOMAIN served : key \in DOMAIN retriever_cache
    /\ \A p \in Procs :
         LET key == CacheKey(vector_store_id[p], k[p])
         IN /\ pc[p] = "gfr_return" =>
                 /\ key \in DOMAIN retriever_cache
                 /\ retriever_cache[key].part = vector_store_id[p]
                 /\ retriever_cache[key].k = k[p]
            /\ GotRetriever(p) =>
                 /\ key \in DOMAIN retriever_cache
                 /\ result[p].kind = "retriever"
                 /\ result[p].val.part = vector_store_id[p]
                 /\ result[p].val.k = k[p]
                 /\ result[p].val.gen \in 1..load_count[vector_store_id[p]]

\* Two overlapping calls for the same partition with different k have both
\* returned, after each of them had loaded the index.
C22_Witness ==
    /\ \A p \in Procs : GotRetriever(p) /\ vector_store_id[p] = "university_details"
    /\ k[1] # k[2]
    /\ load_count["university_details"] = 2

\* C23 (as claimed): a load whose download fails with the connectivity error
\* tries the download again before the error surfaces, while a load whose
\* artifacts are missing makes a single attempt.
C23_TransientDownloadRetried ==
    \A p \in Procs :
        pc[p] = "done" =>
            /\ exc[p].cls = "ConnectionError" => calls[p]["download"] >= 2
            /\ (exc[p].cls = "FileNotFoundError" /\ calls[p]["download"] >= 1) =>
                 calls[p]["download"] = 1

\* The source identifier the claim gives a chunk: the first key, in priority
\* order, that has a non-empty value, and N/A when no key has one.
ClaimedSourceId(doc) ==
    LET meta == ChunkMetadata(doc)
        hits == { i \in 1..Len(SOURCE_ID_KEYS) :
                    /\ SOURCE_ID_KEYS[i] \in DOMAIN meta
                    /\ Truthy(meta[SOURCE_ID_KEYS[i]]) }
    IN IF hits = {} THEN "N/A"
       ELSE LET key == SOURCE_ID_KEYS[CHOOSE i \in hits : \A j \in hits : i <= j]
            IN key \o ": " \o meta[key]

SegsOf(text, t) == SelectSeq(text, LAMBDA s : s.t = t)

\* The thread's request has formatted a non-empty list of chunks.
FormattedChunks(p) ==
    /\ op[p] = "do_rag_query"
    /\ calls[p]["format_retrieved_docs"] >= 1
    /\ Len(final_docs[p]) >= 1

\* C24 (as claimed): every non-empty list of chunks is formatted as one block
\* per chunk, in retrieval order, numbered 1..n, each block showing the
\* chunk's text and the first source key with a non-empty value, or N/A when
\* no key has a non-empty value.
C24_OneBlockPerChunk ==
    \A p \in Procs :
        FormattedChunks(p) =>
            LET docs == final_docs[p]
                ctx == prompt_inputs[p].context
                nums == SegsOf(ctx, "num")
                sources == SegsOf(ctx, "source")
                chunks == SegsOf(ctx, "chunk")
            IN /\ Len(sources) = Len(docs)
               /\ Len(chunks) = Len(docs)
               /\ Len(nums) = 2 * Len(docs)
               /\ \A i \in 1..Len(docs) :
                    /\ nums[2 * i - 1].v = ToString(i)
                    /\ nums[2 * i].v = ToString(i)
                    /\ chunks[i].v = DocContent(docs[i])
                    /\ sources[i].v = ClaimedSourceId(docs[i])

\* C25 (as claimed): formatting never aborts a request over malformed chunk
\* metadata: whenever a non-empty list of chunks has been formatted, no
\* TypeError was raised and the generation prompt holds a text for every
\* chunk, a null blurb_text having been replaced.
C25_MalformedMetadataFormatted ==
    \A p \in Procs :
        FormattedChunks(p) =>
            LET chunks == SegsOf(prompt_inputs[p].context, "chunk")
            IN /\ exc[p].cls # "TypeError"
               /\ ~Failed(p) \/ GenerationFailed(p)
               /\ Len(chunks) = Len(final_docs[p])
               /\ \A i \in 1..Len(chunks) : chunks[i].v # None

\* A step taken while some thread is inside do_rag_query.
RagStep == \E p \in Procs : op[p] = "do_rag_query" /\ op'[p] = "do_rag_query"

\* The variables that hold thread q's request: its arguments, locals and result.
RequestLocals(q) ==
    << user_query[q], user_profile[q], top_k[q], vector_store_id[q], k[q],
       answering_client[q], routing_client[q], attempt[q], llm_response[q],
       chosen_vector_store_id[q], vs[q], retriever[q], final_docs[q],
       prompt_inputs[q], result[q], outcome[q], exc[q] >>

LoadRaised(p) ==
    /\ pc[p] = "done" /\ exc[p] # NoExc
    /\ calls[p]["load_faiss_vector_store"] >= 1
    /\ calls[p]["as_retriever"] = 0
    /\ op[p] = "load_faiss_vector_store" \/ vs[p] = NoVectorStore

\* A step in which load_faiss_vector_store raises.
LoadRaises(p) ==
    /\ pc[p] \in {"load_check", "load_embed", "load_download", "load_local"}
    /\ exc[p] = NoExc /\ exc'[p] # NoExc

C29_RetrieverBoundToCachedIndex ==
    \A key \in DOMAIN retriever_cache :
        LET r == retriever_cache[key]
        IN /\ r.part \in DOMAIN vector_stores
           /\ vector_stores[r.part] = VectorStore(r.part, r.gen)

\* The integers the injectivity of the cache key is checked over: negative
\* numbers, zero, and numbers of one and two digits.
KeyKs == -2..12

\* Distinct pairs of a registered partition id and an integer give distinct keys.
KeysDistinct ==
    \A id1, id2 \in DOMAIN VECTOR_STORE_IDS, k1, k2 \in KeyKs :
        CacheKey(id1, k1) = CacheKey(id2, k2) => (id1 = id2 /\ k1 = k2)

\* The state right after import, where the key function, which does not
\* depend on the state, is examined.
Imported ==
    /\ \A p \in Procs : pc[p] = "idle"
    /\ ~embedding_model_instance
    /\ answering_llm = NoClient /\ routing_llm = NoClient

\* C30: the retriever cache key is injective over registered partition ids
\* and integer k, so distinct pairs never share an entry: every entry of the
\* retriever cache was created for the very pair its key is built from, and
\* get_faiss_retriever(p, k) returns a retriever bound to partition p with
\* result count k.
C30_CacheKeyInjective ==
    /\ Imported => KeysDistinct
    /\ \A id \in DOMAIN VECTOR_STORE_IDS, tk \in TopKs :
          CacheKey(id, tk) \in DOMAIN retriever_cache =>
              /\ retriever_cache[CacheKey(id, tk)].part = id
              /\ retriever_cache[CacheKey(id, tk)].k = tk
    /\ \A p \in Procs :
          GotRetriever(p) =>
              /\ result[p].val.part = vector_store_id[p]
              /\ result[p].val.k = k[p]

\* A retriever is returned for a pair while the cache also holds one for the
\* same partition with another k and one for another partition with the same k.
C30_Witness ==
    \E p \in Procs :
        /\ GotRetriever(p)
        /\ vector_store_id[p] = "professions_jobs" /\ k[p] = DEFAULT_TOP_K
        /\ CacheKey("professions_jobs", 2) \in DOMAIN retriever_cache
        /\ CacheKey("university_details", DEFAULT_TOP_K) \in DOMAIN retriever_cache
        /\ served[CacheKey("professions_jobs", DEFAULT_TOP_K)] = result[p].val

====
